---- MODULE Spec2Model ----
(***************************************************************************)
(* Model of the OpenAI-to-Anthropic proxy of src/server_openai.py: the     *)
(* chunk segmenter (split_chunks), the stream translator                   *)
(* (chat_completion_stream) and the request gateway                        *)
(* (create_chat_completion).                                               *)
(*                                                                         *)
(* A Python str is a sequence of one-character strings: "a. " is           *)
(* <<"a", ".", " ">>.                                                      *)
(***************************************************************************)
EXTENDS Integers, Sequences, FiniteSets, TLC

(* ------------------------------ bounds --------------------------------- *)

\* Largest number of upstream events one stream delivers before it ends.
MaxEvents == 3

\* Length of the long word some upstream fragments carry.
LongLen == 50

(* ------------------------- strings (pure helpers) ---------------------- *)

\* The characters str.strip() removes.
IsSpace(c) == c \in {" ", "\n", "\t"}

RECURSIVE lstrip(_)
lstrip(s) == IF s # <<>> /\ IsSpace(Head(s)) THEN lstrip(Tail(s)) ELSE s

RECURSIVE rstrip(_)
rstrip(s) ==
    IF s # <<>> /\ IsSpace(s[Len(s)]) THEN rstrip(SubSeq(s, 1, Len(s) - 1)) ELSE s

\* str.strip()
strip(s) == rstrip(lstrip(s))

\* text.split(". "): cut at every ". " (two occurrences cannot overlap).
Cuts(s) == { i \in 1..(Len(s) - 1) : s[i] = "." /\ s[i + 1] = " " }

RECURSIVE SplitAtCuts(_, _, _)
SplitAtCuts(s, start, cuts) ==
    IF cuts = {} THEN << SubSeq(s, start, Len(s)) >>
    ELSE LET c == CHOOSE i \in cuts : \A j \in cuts : i <= j
         IN  << SubSeq(s, start, c - 1) >> \o SplitAtCuts(s, c + 2, cuts \ {c})

split_sentences(text) == SplitAtCuts(text, 1, Cuts(text))

\* "".join(seq)
RECURSIVE Concat(_)
Concat(seq) == IF seq = <<>> THEN <<>> ELSE Head(seq) \o Concat(Tail(seq))

(* ------------------------------ segmenter ------------------------------ *)

\* split_text_chunks' default max_chunk_size.
max_chunk_size == 100

\* One iteration of split_text_chunks' loop; st = [chunks, current_chunk].
TextStep(st, sentence) ==
    IF Len(st.current_chunk) + Len(sentence) > max_chunk_size
    THEN [chunks |-> IF st.current_chunk # <<>>
                     THEN Append(st.chunks, strip(st.current_chunk))
                     ELSE st.chunks,
          current_chunk |-> sentence]
    ELSE [chunks |-> st.chunks,
          current_chunk |-> IF st.current_chunk # <<>>
                            THEN st.current_chunk \o <<".", " ">> \o sentence
                            ELSE sentence]

RECURSIVE TextLoop(_, _)
TextLoop(st, sentences) ==
    IF sentences = <<>> THEN st
    ELSE TextLoop(TextStep(st, Head(sentences)), Tail(sentences))

split_text_chunks(text) ==
    LET st == TextLoop([chunks |-> <<>>, current_chunk |-> <<>>],
                       split_sentences(text))
    IN  IF st.current_chunk # <<>>
        THEN Append(st.chunks, strip(st.current_chunk))
        ELSE st.chunks

\* Mutant of JsonStep: a completed chunk is appended but current_chunk is not reset.
JsonStep_NoReset(st, char) ==
    LET cur == Append(st.current_chunk, char) IN
    IF char = "{"
    THEN [chunks |-> st.chunks, depth |-> st.depth + 1, current_chunk |-> cur]
    ELSE IF char = "}"
         THEN IF st.depth - 1 = 0
              THEN [chunks |-> Append(st.chunks, cur), depth |-> 0,
                    current_chunk |-> cur]
              ELSE [chunks |-> st.chunks, depth |-> st.depth - 1,
                    current_chunk |-> cur]
         ELSE [chunks |-> st.chunks, depth |-> st.depth, current_chunk |-> cur]

\* Mutant of JsonStep: a chunk is closed whenever the depth is at or below 0.
JsonStep_CloseAtOrBelowZero(st, char) ==
    LET cur == Append(st.current_chunk, char) IN
    IF char = "{"
    THEN [chunks |-> st.chunks, depth |-> st.depth + 1, current_chunk |-> cur]
    ELSE IF char = "}"
         THEN IF st.depth - 1 <= 0
              THEN [chunks |-> Append(st.chunks, cur), depth |-> st.depth - 1,
                    current_chunk |-> <<>>]
              ELSE [chunks |-> st.chunks, depth |-> st.depth - 1,
                    current_chunk |-> cur]
         ELSE [chunks |-> st.chunks, depth |-> st.depth, current_chunk |-> cur]

\* One iteration of split_json_chunks' loop; st = [chunks, depth, current_chunk].
JsonStep(st, char) ==
    LET cur == Append(st.current_chunk, char) IN
    IF char = "{"
    THEN [chunks |-> st.chunks, depth |-> st.depth + 1, current_chunk |-> cur]
    ELSE IF char = "}"
         THEN IF st.depth - 1 = 0
              THEN [chunks |-> Append(st.chunks, cur), depth |-> 0,
                    current_chunk |-> <<>>]
              ELSE [chunks |-> st.chunks, depth |-> st.depth - 1,
                    current_chunk |-> cur]
         ELSE [chunks |-> st.chunks, depth |-> st.depth, current_chunk |-> cur]

\* for char in text, over text[lo..hi] in order. The range is halved, and the
\* first half's state is evaluated before the second half starts, so that
\* the evaluation does not nest once per character.
RECURSIVE JsonLoop(_, _, _, _)
JsonLoop(st, text, lo, hi) ==
    IF lo > hi THEN st
    ELSE IF lo = hi THEN JsonStep(st, text[lo])
    ELSE LET mid == (lo + hi) \div 2
             first == JsonLoop(st, text, lo, mid)
         IN  IF DOMAIN first = DOMAIN st
             THEN JsonLoop(first, text, mid + 1, hi)
             ELSE first

split_json_chunks(text) ==
    LET st == JsonLoop([chunks |-> <<>>, depth |-> 0, current_chunk |-> <<>>],
                       text, 1, Len(text))
    IN  IF st.current_chunk # <<>>
        THEN Append(st.chunks, st.current_chunk)
        ELSE st.chunks

split_chunks(text, json_response_required) ==
    IF json_response_required THEN split_json_chunks(text)
    ELSE split_text_chunks(text)

(* --------------------------- configuration ----------------------------- *)

CLAUDE_PROXY_API_KEY == "proxy-key"
ANTHROPIC_MODEL == "claude-3-haiku-20240307"
MODEL_TEMPERATURE == "0.7"
MAX_TOKENS == 4096

(* ------------------------- inbound requests ---------------------------- *)

\* Longest inbound message list.
MaxMsgs == 2

\* Largest token count the upstream reports.
MaxTok == 1
MaxBufLen == 5
MaxPieces == 3

MsgPool ==
    { [role |-> "system", content |-> "S1"],
      [role |-> "system", content |-> "S2"],
      [role |-> "user", content |-> "U"],
      [role |-> "assistant", content |-> "A"] }

RECURSIVE SeqsUpTo(_, _)
SeqsUpTo(S, n) ==
    IF n = 0 THEN { <<>> }
    ELSE LET shorter == SeqsUpTo(S, n - 1)
         IN  shorter \cup { Append(q, x) : q \in shorter, x \in S }

\* Authorization header values, as sequences of tokens.
GoodAuth == <<"Bearer ", CLAUDE_PROXY_API_KEY>>

AuthHeaders ==
    { GoodAuth,
      <<"Bearer ", "wrong-key">>,
      <<"Basic ", CLAUDE_PROXY_API_KEY>>,
      <<"Bearer ", CLAUDE_PROXY_API_KEY, " extra">>,
      <<"Bearer ", CLAUDE_PROXY_API_KEY, "Bearer ", "extra">> }

\* The parsed JSON object of a request body (the fields the handler reads).
DataObjects ==
    [ has_messages : BOOLEAN,
      messages : SeqsUpTo(MsgPool, MaxMsgs),
      has_max_tokens : BOOLEAN,
      has_temperature : BOOLEAN,
      stream : BOOLEAN,
      response_format : {"absent", "json_object", "text"} ]

NoData ==
    [ has_messages |-> FALSE, messages |-> <<>>, has_max_tokens |-> FALSE,
      has_temperature |-> FALSE, stream |-> FALSE, response_format |-> "absent" ]

\* A body is invalid JSON, JSON that is no object (a list), or an object.
Bodies ==
    { [kind |-> "invalid_json", data |-> NoData],
      [kind |-> "not_object", data |-> NoData] }
    \cup { [kind |-> "object", data |-> d] :
             d \in { x \in DataObjects : x.has_messages \/ x.messages = <<>> } }

Requests ==
    { [authorization |-> a, body |-> b] : a \in AuthHeaders, b \in Bodies }

\* The value a request carries in a field when the field is present.
RequestMaxTokens == 100
RequestTemperature == "0.2"

(* -------------------- gateway: pure helper functions ------------------- *)

NoException == [raised |-> FALSE]
HTTPException(status_code, detail) ==
    [raised |-> TRUE, type |-> "HTTPException", status_code |-> status_code,
     detail |-> detail]

\* authorization.split("Bearer ")[1] on a header that starts with "Bearer ".
RECURSIVE UpToBearer(_)
UpToBearer(tokens) ==
    IF tokens = <<>> \/ Head(tokens) = "Bearer " THEN <<>>
    ELSE <<Head(tokens)>> \o UpToBearer(Tail(tokens))

verify_api_key(authorization) ==
    IF ~(authorization # <<>> /\ Head(authorization) = "Bearer ")
    THEN HTTPException(401, <<"Invalid authorization header">>)
    ELSE IF UpToBearer(Tail(authorization)) # <<CLAUDE_PROXY_API_KEY>>
         THEN HTTPException(401, <<"Invalid API key">>)
         ELSE NoException

create_error_response(status_code, message) ==
    [ via |-> "JSONResponse", status |-> status_code,
      body |-> [error |-> [message |-> message, type |-> "invalid_request_error"]] ]

parse_request_body(body) ==
    IF body.kind = "invalid_json"
    THEN HTTPException(400, <<"Invalid JSON: ", "Expecting value">>)
    ELSE NoException

\* Mutant of validate_messages: only a missing key is rejected, an empty list passes.
validate_messages_MissingOnly(data) ==
    IF ~data.has_messages
    THEN HTTPException(400, <<"At least one message is required">>)
    ELSE NoException

validate_messages(data) ==
    IF ~data.has_messages \/ data.messages = <<>>
    THEN HTTPException(400, <<"At least one message is required">>)
    ELSE NoException

\* Mutant of ExtractLoop: a system message is also appended to user_messages.
RECURSIVE ExtractLoop_ForwardAll(_, _)
ExtractLoop_ForwardAll(st, messages) ==
    IF messages = <<>> THEN st
    ELSE LET msg == Head(messages) IN
         ExtractLoop_ForwardAll(
            IF msg.role = "system"
            THEN [st EXCEPT !.has_system = TRUE, !.system_message = msg.content,
                            !.user_messages = Append(@, msg)]
            ELSE [st EXCEPT !.user_messages = Append(@, msg)],
            Tail(messages))

\* extract_messages' loop; st = [system_message, user_messages].
RECURSIVE ExtractLoop(_, _)
ExtractLoop(st, messages) ==
    IF messages = <<>> THEN st
    ELSE LET msg == Head(messages) IN
         ExtractLoop(
            IF msg.role = "system"
            THEN [st EXCEPT !.has_system = TRUE, !.system_message = msg.content]
            ELSE [st EXCEPT !.user_messages = Append(@, msg)],
            Tail(messages))

extract_messages(messages) ==
    ExtractLoop([has_system |-> FALSE, system_message |-> "",
                 user_messages |-> <<>>], messages)

prepare_api_params(data, messages) ==
    LET ex == extract_messages(messages) IN
    [ model |-> ANTHROPIC_MODEL,
      max_tokens |-> IF data.has_max_tokens THEN RequestMaxTokens ELSE MAX_TOKENS,
      messages |-> ex.user_messages,
      has_temperature |-> TRUE,
      temperature |-> IF data.has_temperature THEN RequestTemperature
                      ELSE MODEL_TEMPERATURE,
      has_system |-> ex.has_system /\ ex.system_message # "",
      system |-> IF ex.has_system /\ ex.system_message # ""
                 THEN ex.system_message ELSE "" ]

is_json_response_required(data) == data.response_format = "json_object"

(* ------------------- upstream: messages.create outcomes ---------------- *)

\* Texts the upstream returns, with what json.loads makes of each.
UpstreamTexts ==
    { "{\"key\": \"value\"}", "{\"key\":\"value\"}", "42",
      "Here is the JSON: {\"key\": \"value\"}", "" }

\* json.loads(content): the parsed value, or JSONDecodeError.
json_loads(content) ==
    CASE content = "{\"key\": \"value\"}" -> [ok |-> TRUE, value |-> "object(key: value)"]
      [] content = "{\"key\":\"value\"}" -> [ok |-> TRUE, value |-> "object(key: value)"]
      [] content = "42" -> [ok |-> TRUE, value |-> "number(42)"]
      [] OTHER -> [ok |-> FALSE, value |-> "JSONDecodeError"]

\* json.dumps(json_content, ensure_ascii=False, indent=2)
json_dumps_indent2(value) ==
    CASE value = "object(key: value)" -> "{\n  \"key\": \"value\"\n}"
      [] value = "number(42)" -> "42"

\* An upstream Message: content blocks and usage.
UpstreamResponses ==
    { [content |-> c, usage |-> [input_tokens |-> i, output_tokens |-> o]] :
        c \in { <<>> } \cup { <<[text |-> t]>> : t \in UpstreamTexts },
        i \in 0..MaxTok, o \in 0..MaxTok }

\* Exceptions messages.create raises: type name and str(e).
UpstreamExceptions ==
    { [raised |-> TRUE, type |-> "APIError", text |-> "Anthropic API Error"],
      [raised |-> TRUE, type |-> "BadRequestError", text |-> "invalid request"],
      [raised |-> TRUE, type |-> "APITimeoutError", text |-> "Request timed out."],
      [raised |-> TRUE, type |-> "Exception", text |-> "Unexpected error"] }

\* isinstance(e, (BadRequestError, APIError, APIStatusError)) by type name.
IsAnthropicError(e) ==
    e.type \in {"APIError", "APIStatusError", "BadRequestError", "APITimeoutError"}

\* str(e) of an exception.
StrOfException(e) ==
    IF e.type = "HTTPException"
    THEN Concat(<< <<"500", ": ">>, e.detail >>)
    ELSE <<e.text>>

(* ----------------------- non-streaming response ------------------------ *)

\* format_json_response: the reformatted response, or HTTPException(500).
format_json_response(response) ==
    LET content == IF response.content # <<>> THEN response.content[1].text ELSE ""
        parsed == json_loads(content)
    IN  IF parsed.ok
        THEN [exc |-> NoException,
              response |-> [response EXCEPT
                  !.content = <<[text |-> json_dumps_indent2(parsed.value)]>>]]
        ELSE [exc |-> HTTPException(500, <<"Failed to generate a valid JSON response">>),
              response |-> response]

\* Mutant of create_chat_completion_response: total_tokens reports the input only.
create_chat_completion_response_TotalIsInput(response) ==
    [ object |-> "chat.completion",
      model |-> ANTHROPIC_MODEL,
      choices |-> << [index |-> 0,
                      message |-> [role |-> "assistant",
                                   content |-> IF response.content # <<>>
                                               THEN response.content[1].text ELSE ""],
                      finish_reason |-> "stop"] >>,
      usage |-> [prompt_tokens |-> response.usage.input_tokens,
                 completion_tokens |-> response.usage.output_tokens,
                 total_tokens |-> response.usage.input_tokens] ]

create_chat_completion_response(response) ==
    [ object |-> "chat.completion",
      model |-> ANTHROPIC_MODEL,
      choices |-> << [index |-> 0,
                      message |-> [role |-> "assistant",
                                   content |-> IF response.content # <<>>
                                               THEN response.content[1].text ELSE ""],
                      finish_reason |-> "stop"] >>,
      usage |-> [prompt_tokens |-> response.usage.input_tokens,
                 completion_tokens |-> response.usage.output_tokens,
                 total_tokens |-> response.usage.input_tokens
                                  + response.usage.output_tokens] ]

JSONResponse(content) == [via |-> "JSONResponse", status |-> 200, body |-> content]

\* Mutant of NonStreamingExcept: only Anthropic errors are caught, others propagate.
NonStreamingExcept_AnthropicOnly(e) ==
    IF IsAnthropicError(e)
    THEN create_error_response(500,
            <<"Anthropic API error: ", e.type, " - ">> \o StrOfException(e))
    ELSE [via |-> e.type, status |-> 500, body |-> [detail |-> StrOfException(e)]]

\* The except clauses of handle_non_streaming_response.
NonStreamingExcept(e) ==
    IF IsAnthropicError(e)
    THEN create_error_response(500,
            <<"Anthropic API error: ", e.type, " - ">> \o StrOfException(e))
    ELSE create_error_response(500,
            <<"Unexpected error: ", e.type, " - ">> \o StrOfException(e))

\* handle_non_streaming_response once messages.create has returned `response`.
NonStreamingReturn(response, json_required) ==
    IF json_required
    THEN LET f == format_json_response(response) IN
         IF f.exc.raised THEN NonStreamingExcept(f.exc)
         ELSE JSONResponse(create_chat_completion_response(f.response))
    ELSE JSONResponse(create_chat_completion_response(response))

(* --------------------------- stream events ----------------------------- *)

LongWord == [i \in 1..LongLen |-> "a"]

\* Text fragments an upstream content_block_delta carries.
Fragments ==
    { <<>>, <<"a">>, <<" ">>, <<".", " ">>, <<"{">>, <<"}">>,
      <<".", " ">> \o LongWord }

UpstreamEvents ==
    { [type |-> "content_block_delta", text |-> f] : f \in Fragments }
    \cup { [type |-> "message_delta", text |-> <<>>] }

\* Exceptions the upstream stream raises.
StreamExceptions ==
    { [raised |-> TRUE, type |-> "APIError", text |-> "Overloaded"] }

IndexError == [raised |-> TRUE, type |-> "IndexError", text |-> "list index out of range"]

\* format_stream_response(completion_id, created_time, event_type, content)
format_stream_response(event_type, content) ==
    [ object |-> "chat.completion.chunk",
      type |-> event_type,
      delta |-> IF event_type = "delta" THEN content ELSE <<>>,
      role |-> IF event_type = "start" THEN "assistant" ELSE "",
      finish_reason |-> IF event_type = "stop" THEN "stop" ELSE "" ]

\* f"data: {json.dumps({'error': str(e)})}\n\n"
ErrorFrame(e) ==
    [ object |-> "error", type |-> "error", delta |-> StrOfException(e),
      role |-> "", finish_reason |-> "" ]

\* "data: [DONE]\n\n"
DoneFrame ==
    [ object |-> "[DONE]", type |-> "done", delta |-> <<>>, role |-> "",
      finish_reason |-> "" ]

(* ------------------------------- state --------------------------------- *)

VARIABLES
    request,                 \* the inbound request being handled
    gpc,                     \* create_chat_completion: "received", "awaiting_create", "responded"
    response,                \* what the handler returned or raised
    api_params,              \* the upstream call parameters
    json_response_required,
    create_calls,            \* calls of client.messages.create
    create_result,           \* what messages.create returned or raised
    stream_calls,            \* calls of client.messages.stream
    pc,                      \* chat_completion_stream: where the generator stands
    buffer,
    chunks,                  \* chunks of the current event still to be handled
    out,                     \* outbound events yielded so far
    consumed,                \* upstream events consumed so far
    upstream,                \* the upstream stream: "unopened", "live", "exhausted",
                             \* "closed", "failed_open", "failed_iter", "failed_close",
                             \* "closed_on_cancel", "failed_on_cancel"
    exc                      \* the exception the generator caught or ended with

gateway_vars ==
    <<request, gpc, response, api_params, json_response_required, create_calls,
      create_result>>
stream_vars == <<stream_calls, pc, buffer, chunks, out, consumed, upstream, exc>>
vars == <<gateway_vars, stream_vars>>

NoResponse == [via |-> "none", status |-> 0, body |-> [none |-> TRUE]]
NoParams == [model |-> "none"]

InitState(requests) ==
    /\ request \in requests
    /\ gpc = "received"
    /\ response = NoResponse
    /\ api_params = NoParams
    /\ json_response_required = FALSE
    /\ create_calls = 0
    /\ create_result = NoException
    /\ stream_calls = 0
    /\ pc = "idle"
    /\ buffer = <<>>
    /\ chunks = <<>>
    /\ out = <<>>
    /\ consumed = <<>>
    /\ upstream = "unopened"
    /\ exc = NoException

(* --------------------------- request gateway --------------------------- *)

\* An HTTPException that leaves create_chat_completion.
Raised(e) == [via |-> "HTTPException", status |-> e.status_code,
              body |-> [detail |-> e.detail]]

StreamingResponse ==
    [via |-> "StreamingResponse", status |-> 200,
     body |-> [media_type |-> "text/event-stream"]]

\* create_chat_completion up to its upstream call: the response it ends with,
\* or the call it goes on to make.
create_chat_completion(req) ==
    LET auth == verify_api_key(req.authorization)
        parsed == parse_request_body(req.body)
        data == req.body.data
        valid == validate_messages(data)
    IN  IF auth.raised THEN [next |-> "respond", response |-> Raised(auth)]
        ELSE IF parsed.raised THEN [next |-> "respond", response |-> Raised(parsed)]
        ELSE IF req.body.kind # "object"
             THEN [next |-> "respond",
                   response |-> create_error_response(500,
                       <<"Internal server error: ",
                         "'list' object has no attribute 'get'">>)]
        ELSE IF valid.raised THEN [next |-> "respond", response |-> Raised(valid)]
        ELSE [next |-> IF data.stream THEN "stream" ELSE "create",
              api_params |-> prepare_api_params(data, data.messages),
              json_response_required |-> is_json_response_required(data)]

\* The handler ends by raising an HTTPException (bad auth, bad body, no messages).
RejectRequest ==
    LET o == create_chat_completion(request) IN
    /\ gpc = "received"
    /\ o.next = "respond" /\ o.response.via = "HTTPException"
    /\ response' = o.response
    /\ gpc' = "responded"
    /\ UNCHANGED <<request, api_params, json_response_required, create_calls,
                   create_result>>
    /\ UNCHANGED stream_vars

\* The handler's last except clause returns the error envelope.
InternalError ==
    LET o == create_chat_completion(request) IN
    /\ gpc = "received"
    /\ o.next = "respond" /\ o.response.via = "JSONResponse"
    /\ response' = o.response
    /\ gpc' = "responded"
    /\ UNCHANGED <<request, api_params, json_response_required, create_calls,
                   create_result>>
    /\ UNCHANGED stream_vars

\* handle_streaming_response: the generator is handed to StreamingResponse.
DispatchStreaming ==
    LET o == create_chat_completion(request) IN
    /\ gpc = "received"
    /\ o.next = "stream"
    /\ api_params' = o.api_params
    /\ json_response_required' = o.json_response_required
    /\ response' = StreamingResponse
    /\ gpc' = "responded"
    /\ pc' = "open"
    /\ UNCHANGED <<request, create_calls, create_result>>
    /\ UNCHANGED <<stream_calls, buffer, chunks, out, consumed, upstream, exc>>

\* handle_non_streaming_response up to its await of messages.create.
CallCreate ==
    LET o == create_chat_completion(request) IN
    /\ gpc = "received"
    /\ o.next = "create"
    /\ api_params' = o.api_params
    /\ json_response_required' = o.json_response_required
    /\ create_calls' = create_calls + 1
    /\ gpc' = "awaiting_create"
    /\ UNCHANGED <<request, response, create_result>>
    /\ UNCHANGED stream_vars

\* messages.create returns a Message.
CreateReturns ==
    /\ gpc = "awaiting_create"
    /\ \E r \in UpstreamResponses :
          /\ create_result' = [raised |-> FALSE, response |-> r]
          /\ response' = NonStreamingReturn(r, json_response_required)
    /\ gpc' = "responded"
    /\ UNCHANGED <<request, api_params, json_response_required, create_calls>>
    /\ UNCHANGED stream_vars

\* messages.create raises.
CreateRaises ==
    /\ gpc = "awaiting_create"
    /\ \E e \in UpstreamExceptions :
          /\ create_result' = e
          /\ response' = NonStreamingExcept(e)
    /\ gpc' = "responded"
    /\ UNCHANGED <<request, api_params, json_response_required, create_calls>>
    /\ UNCHANGED stream_vars

(* --------------------------- stream translator ------------------------- *)

\* async with client.messages.stream(**api_params) succeeds; yield "start".
StreamOpenOk ==
    /\ pc = "open"
    /\ stream_calls' = stream_calls + 1
    /\ upstream' = "live"
    /\ out' = Append(out, format_stream_response("start", <<>>))
    /\ buffer' = <<>>
    /\ pc' = "next"
    /\ UNCHANGED <<chunks, consumed, exc>>
    /\ UNCHANGED gateway_vars

\* Opening the upstream stream raises.
StreamOpenFail ==
    /\ pc = "open"
    /\ stream_calls' = stream_calls + 1
    /\ upstream' = "failed_open"
    /\ \E e \in StreamExceptions : exc' = e
    /\ pc' = "except"
    /\ UNCHANGED <<buffer, chunks, out, consumed>>
    /\ UNCHANGED gateway_vars

\* Mutant of ConsumeEvent: the event type is not looked at.
ConsumeEvent_AnyType ==
    /\ pc = "next"
    /\ upstream = "live"
    /\ Len(consumed) < MaxEvents
    /\ \E event \in UpstreamEvents :
          /\ consumed' = Append(consumed, event)
          /\ IF event.type = event.type
             THEN LET text == buffer \o event.text
                      cs == split_chunks(text, json_response_required)
                  IN  /\ buffer' = text
                      /\ IF cs = <<>>
                         THEN \* chunks[-1] of an empty list
                              /\ exc' = IndexError
                              /\ upstream' = "closed"
                              /\ pc' = "except"
                              /\ chunks' = <<>>
                         ELSE /\ chunks' = cs
                              /\ pc' = "for_chunks"
                              /\ UNCHANGED <<exc, upstream>>
             ELSE UNCHANGED <<buffer, chunks, pc, exc, upstream>>
    /\ UNCHANGED <<stream_calls, out>>
    /\ UNCHANGED gateway_vars

\* Mutant of ConsumeEvent: only the new fragment is scanned, from depth 0,
\* and the buffer is put in front of its first chunk.
ConsumeEvent_ScanFragmentOnly ==
    /\ pc = "next"
    /\ upstream = "live"
    /\ Len(consumed) < MaxEvents
    /\ \E event \in UpstreamEvents :
          /\ consumed' = Append(consumed, event)
          /\ IF event.type = "content_block_delta"
             THEN LET text == buffer \o event.text
                      fs == split_chunks(event.text, json_response_required)
                      cs == IF fs = <<>> THEN <<>>
                            ELSE <<buffer \o Head(fs)>> \o Tail(fs)
                  IN  /\ buffer' = text
                      /\ IF cs = <<>>
                         THEN \* chunks[-1] of an empty list
                              /\ exc' = IndexError
                              /\ upstream' = "closed"
                              /\ pc' = "except"
                              /\ chunks' = <<>>
                         ELSE /\ chunks' = cs
                              /\ pc' = "for_chunks"
                              /\ UNCHANGED <<exc, upstream>>
             ELSE UNCHANGED <<buffer, chunks, pc, exc, upstream>>
    /\ UNCHANGED <<stream_calls, out>>
    /\ UNCHANGED gateway_vars

\* async for: the next upstream event arrives (lines 214-217).
ConsumeEvent ==
    /\ pc = "next"
    /\ upstream = "live"
    /\ Len(consumed) < MaxEvents
    /\ \E event \in UpstreamEvents :
          /\ consumed' = Append(consumed, event)
          /\ IF event.type = "content_block_delta"
             THEN LET text == buffer \o event.text
                      cs == split_chunks(text, json_response_required)
                  IN  /\ buffer' = text
                      /\ IF cs = <<>>
                         THEN \* chunks[-1] of an empty list
                              /\ exc' = IndexError
                              /\ upstream' = "closed"
                              /\ pc' = "except"
                              /\ chunks' = <<>>
                         ELSE /\ chunks' = cs
                              /\ pc' = "for_chunks"
                              /\ UNCHANGED <<exc, upstream>>
             ELSE UNCHANGED <<buffer, chunks, pc, exc, upstream>>
    /\ UNCHANGED <<stream_calls, out>>
    /\ UNCHANGED gateway_vars

\* Mutant of YieldChunk: a ready chunk is passed over without being yielded.
YieldChunk_NotEmitted ==
    /\ pc = "for_chunks"
    /\ Len(chunks) > 1
    /\ chunks' = Tail(chunks)
    /\ UNCHANGED <<stream_calls, pc, buffer, out, consumed, upstream, exc>>
    /\ UNCHANGED gateway_vars

\* for chunk in chunks[:-1]: yield a delta (lines 218-221).
YieldChunk ==
    /\ pc = "for_chunks"
    /\ Len(chunks) > 1
    /\ out' = Append(out, format_stream_response("delta", Head(chunks)))
    /\ chunks' = Tail(chunks)
    /\ UNCHANGED <<stream_calls, pc, buffer, consumed, upstream, exc>>
    /\ UNCHANGED gateway_vars

\* Mutant of KeepRemainder: the buffer is left as it was, emitted chunks included.
KeepRemainder_KeepBuffer ==
    /\ pc = "for_chunks"
    /\ Len(chunks) = 1
    /\ chunks' = <<>>
    /\ pc' = "next"
    /\ UNCHANGED <<stream_calls, buffer, out, consumed, upstream, exc>>
    /\ UNCHANGED gateway_vars

\* buffer = chunks[-1] (line 222).
KeepRemainder ==
    /\ pc = "for_chunks"
    /\ Len(chunks) = 1
    /\ buffer' = chunks[Len(chunks)]
    /\ chunks' = <<>>
    /\ pc' = "next"
    /\ UNCHANGED <<stream_calls, out, consumed, upstream, exc>>
    /\ UNCHANGED gateway_vars

\* The upstream sequence ends.
EndOfStream ==
    /\ pc = "next"
    /\ upstream = "live"
    /\ upstream' = "exhausted"
    /\ pc' = "flush"
    /\ UNCHANGED <<stream_calls, buffer, chunks, out, consumed, exc>>
    /\ UNCHANGED gateway_vars

\* The upstream raises while it is iterated.
UpstreamError ==
    /\ pc = "next"
    /\ upstream = "live"
    /\ upstream' = "failed_iter"
    /\ \E e \in StreamExceptions : exc' = e
    /\ pc' = "except"
    /\ UNCHANGED <<stream_calls, buffer, chunks, out, consumed>>
    /\ UNCHANGED gateway_vars

\* if buffer: yield the remaining content (lines 225-228).
FlushBuffer ==
    /\ pc = "flush"
    /\ out' = IF buffer # <<>>
              THEN Append(out, format_stream_response("delta", buffer))
              ELSE out
    /\ pc' = "stop"
    /\ UNCHANGED <<stream_calls, buffer, chunks, consumed, upstream, exc>>
    /\ UNCHANGED gateway_vars

\* yield "stop" (line 230).
YieldStop ==
    /\ pc = "stop"
    /\ out' = Append(out, format_stream_response("stop", <<>>))
    /\ pc' = "close"
    /\ UNCHANGED <<stream_calls, buffer, chunks, consumed, upstream, exc>>
    /\ UNCHANGED gateway_vars

\* The stream context exits cleanly.
CloseOk ==
    /\ pc = "close"
    /\ upstream' = "closed"
    /\ pc' = "done"
    /\ UNCHANGED <<stream_calls, buffer, chunks, out, consumed, exc>>
    /\ UNCHANGED gateway_vars

\* The stream context raises while it exits.
CloseFail ==
    /\ pc = "close"
    /\ upstream' = "failed_close"
    /\ \E e \in StreamExceptions : exc' = e
    /\ pc' = "except"
    /\ UNCHANGED <<stream_calls, buffer, chunks, out, consumed>>
    /\ UNCHANGED gateway_vars

\* yield "data: [DONE]" (line 232).
YieldDone ==
    /\ pc = "done"
    /\ out' = Append(out, DoneFrame)
    /\ pc' = "finished"
    /\ UNCHANGED <<stream_calls, buffer, chunks, consumed, upstream, exc>>
    /\ UNCHANGED gateway_vars

\* Mutant of ExceptYieldError: the handler flushes the buffer before the error frame.
ExceptYieldError_Flushing ==
    /\ pc = "except"
    /\ out' = (IF buffer # <<>>
               THEN Append(out, format_stream_response("delta", buffer))
               ELSE out) \o <<ErrorFrame(exc)>>
    /\ pc' = "except_done"
    /\ UNCHANGED <<stream_calls, buffer, chunks, consumed, upstream, exc>>
    /\ UNCHANGED gateway_vars

\* except Exception: yield the error frame (line 235).
ExceptYieldError ==
    /\ pc = "except"
    /\ out' = Append(out, ErrorFrame(exc))
    /\ pc' = "except_done"
    /\ UNCHANGED <<stream_calls, buffer, chunks, consumed, upstream, exc>>
    /\ UNCHANGED gateway_vars

\* Mutant of ExceptYieldDone: the error path ends without the sentinel.
ExceptYieldDone_NoSentinel ==
    /\ pc = "except_done"
    /\ pc' = "finished"
    /\ UNCHANGED <<stream_calls, buffer, chunks, out, consumed, upstream, exc>>
    /\ UNCHANGED gateway_vars

\* except Exception: yield "data: [DONE]" (line 236).
ExceptYieldDone ==
    /\ pc = "except_done"
    /\ out' = Append(out, DoneFrame)
    /\ pc' = "finished"
    /\ UNCHANGED <<stream_calls, buffer, chunks, consumed, upstream, exc>>
    /\ UNCHANGED gateway_vars

(* ----------------------------- disconnection --------------------------- *)

\* BaseExceptions thrown into the generator when its consumer goes away, and
\* what aclose() raises when the generator yields again while being closed.
GeneratorExit == [raised |-> TRUE, type |-> "GeneratorExit", text |-> ""]
CancelledError == [raised |-> TRUE, type |-> "CancelledError", text |-> ""]
IgnoredGeneratorExit ==
    [raised |-> TRUE, type |-> "RuntimeError",
     text |-> "async generator ignored GeneratorExit"]

\* The generator is suspended at a yield inside the async with block: the
\* start event, a ready chunk, the flushed buffer, or the stop event.
SuspendedAtYield ==
    \/ pc = "next" /\ upstream = "live" /\ consumed = <<>>
    \/ pc = "for_chunks"
          /\ Len(chunks) < Len(split_chunks(buffer, json_response_required))
    \/ pc = "stop" /\ buffer # <<>>
    \/ pc = "close"

\* aclose(): GeneratorExit is raised at the yield; 'except Exception' does not
\* catch it and the stream context exits. When the exit raises, the except
\* clause runs, its yield is refused and aclose() raises RuntimeError.
GeneratorClosed ==
    /\ SuspendedAtYield
    /\ \E exit_ok \in BOOLEAN :
          /\ upstream' = IF exit_ok THEN "closed_on_cancel" ELSE "failed_on_cancel"
          /\ exc' = IF exit_ok THEN GeneratorExit ELSE IgnoredGeneratorExit
    /\ pc' = "cancelled"
    /\ UNCHANGED <<stream_calls, buffer, chunks, out, consumed>>
    /\ UNCHANGED gateway_vars

\* The consuming task is cancelled while the generator awaits the next
\* upstream event: CancelledError passes 'except Exception' and the stream
\* context exits; an Exception raised by that exit replaces it and is caught.
TaskCancelled ==
    /\ pc = "next"
    /\ upstream = "live"
    /\ \/ /\ upstream' = "closed_on_cancel"
          /\ exc' = CancelledError
          /\ pc' = "cancelled"
       \/ /\ upstream' = "failed_on_cancel"
          /\ \E e \in StreamExceptions : exc' = e
          /\ pc' = "except"
    /\ UNCHANGED <<stream_calls, buffer, chunks, out, consumed>>
    /\ UNCHANGED gateway_vars

(* ---------------------------- specifications --------------------------- *)

\* Requests that reach the stream translator, one per mode.
StreamRequests ==
    { r \in Requests :
        /\ r.authorization = GoodAuth
        /\ r.body.kind = "object"
        /\ r.body.data.messages = <<[role |-> "user", content |-> "U"]>>
        /\ r.body.data.stream
        /\ ~r.body.data.has_max_tokens
        /\ ~r.body.data.has_temperature
        /\ r.body.data.response_format \in {"absent", "json_object"} }

\* The stream translator on a streaming request.
Init == InitState(StreamRequests)

Next ==
    \/ DispatchStreaming
    \/ StreamOpenOk
    \/ StreamOpenFail
    \/ ConsumeEvent
    \/ YieldChunk
    \/ KeepRemainder
    \/ EndOfStream
    \/ UpstreamError
    \/ FlushBuffer
    \/ YieldStop
    \/ CloseOk
    \/ CloseFail
    \/ YieldDone
    \/ ExceptYieldError
    \/ ExceptYieldDone

Spec == Init /\ [][Next]_vars

\* The stream translator with a consumer that may go away mid-stream.
NextCancel ==
    \/ Next
    \/ GeneratorClosed
    \/ TaskCancelled

SpecCancel == Init /\ [][NextCancel]_vars

\* The request gateway on every request, up to its upstream call.
InitGateway == InitState(Requests)

NextGateway ==
    \/ RejectRequest
    \/ InternalError
    \/ DispatchStreaming
    \/ CallCreate
    \/ CreateReturns
    \/ CreateRaises
    \/ StreamOpenOk
    \/ StreamOpenFail

SpecGateway == InitGateway /\ [][NextGateway]_vars

\* Buffers handed to split_chunks: every string of up to MaxBufLen characters
\* over letters, blanks, full stops and braces, and longer ones put together
\* from up to MaxPieces pieces around the chunk size threshold.
BufferAlphabet == {"a", " ", ".", "{", "}"}
HalfChunk == [i \in 1..(max_chunk_size \div 2) |-> "a"]
OverChunk == [i \in 1..(max_chunk_size + 1) |-> "a"]
BufferPieces == { HalfChunk, OverChunk, <<".", " ">>, <<"a">> }

SegmenterBuffers ==
    SeqsUpTo(BufferAlphabet, MaxBufLen)
    \cup { Concat(ps) : ps \in SeqsUpTo(BufferPieces, MaxPieces) }

\* The segmenter alone: a stream that is open, about to split its buffer.
InitSegmenter ==
    /\ request \in StreamRequests
    /\ gpc = "responded"
    /\ response = StreamingResponse
    /\ api_params = prepare_api_params(request.body.data, request.body.data.messages)
    /\ json_response_required = is_json_response_required(request.body.data)
    /\ create_calls = 0
    /\ create_result = NoException
    /\ stream_calls = 1
    /\ pc = "segment"
    /\ buffer \in SegmenterBuffers
    /\ chunks = <<>>
    /\ out = <<format_stream_response("start", <<>>)>>
    /\ consumed = <<>>
    /\ upstream = "live"
    /\ exc = NoException

\* chunks = split_chunks(buffer, json_response_required) (line 217).
Segment ==
    /\ pc = "segment"
    /\ chunks' = split_chunks(buffer, json_response_required)
    /\ pc' = "segmented"
    /\ UNCHANGED <<stream_calls, buffer, out, consumed, upstream, exc>>
    /\ UNCHANGED gateway_vars

NextSegmenter == Segment

SpecSegmenter == InitSegmenter /\ [][NextSegmenter]_vars

(* ------------------------------- claims -------------------------------- *)

\* How many outbound events of one type were yielded.
Count(events, type) == Cardinality({ i \in 1..Len(events) : events[i].type = type })

\* The contents of the delta events, in emission order.
RECURSIVE DeltaContents(_)
DeltaContents(events) ==
    IF events = <<>> THEN <<>>
    ELSE (IF Head(events).type = "delta" THEN <<Head(events).delta>> ELSE <<>>)
         \o DeltaContents(Tail(events))

\* The text fragments of the content deltas consumed, in arrival order.
RECURSIVE UpstreamFragments(_)
UpstreamFragments(events) ==
    IF events = <<>> THEN <<>>
    ELSE (IF Head(events).type = "content_block_delta"
          THEN <<Head(events).text>> ELSE <<>>)
         \o UpstreamFragments(Tail(events))

UpstreamFailed == upstream \in {"failed_open", "failed_iter", "failed_close"}

\* The stream ran to its end with no exception anywhere.
CleanlyFinished == pc = "finished" /\ upstream = "closed" /\ ~exc.raised

\* C1: once a stream has ended, on the success path or after an error at any
\* point, "data: [DONE]" was emitted exactly once and is the last event; no
\* event ever follows a sentinel.
C1_DoneOnceAndLast ==
    /\ \A i \in 1..Len(out) : out[i].type = "done" => i = Len(out)
    /\ pc = "finished" => (out # <<>> /\ out[Len(out)] = DoneFrame)
    /\ Count(out, "done") > 0 => pc = "finished"

C1_Witness ==
    /\ pc = "finished"
    /\ upstream = "failed_close"
    /\ Count(out, "done") = 1
    /\ Count(out, "delta") > 0

\* C2 (as claimed): every stream whose upstream did not fail, in either mode,
\* empty text fragments included, is start, deltas, stop, sentinel, with no
\* error frame.
C2_CleanStreamShape ==
    (pc = "finished" /\ ~UpstreamFailed) =>
        /\ Len(out) >= 3
        /\ out[1].type = "start"
        /\ out[Len(out) - 1].type = "stop"
        /\ out[Len(out)].type = "done"
        /\ \A i \in 2..(Len(out) - 2) : out[i].type = "delta"
        /\ Count(out, "error") = 0

\* C3: when the upstream raises while it is iterated, no stop is ever emitted,
\* the error frame carrying the message comes next and the sentinel right
\* after it, and from the failure on no delta is added (the buffer is not
\* flushed).
C3_AfterIterFailure ==
    upstream = "failed_iter" =>
        /\ pc \in {"except", "except_done", "finished"}
        /\ exc \in StreamExceptions
        /\ Count(out, "stop") = 0
        /\ Count(out, "error") = (IF pc = "except" THEN 0 ELSE 1)
        /\ pc = "except_done" => out[Len(out)] = ErrorFrame(exc)
        /\ pc = "finished" =>
              /\ Len(out) >= 3
              /\ out[Len(out) - 1] = ErrorFrame(exc)
              /\ out[Len(out)] = DoneFrame
        /\ out[1].type = "start"
        /\ \A i \in 2..Len(out) : out[i].type \in {"delta", "error", "done"}

C3_ErrorThenDone ==
    /\ [](C3_AfterIterFailure)
    /\ [][upstream' = "failed_iter" => DeltaContents(out') = DeltaContents(out)]_vars

C3_Witness ==
    /\ pc = "finished"
    /\ upstream = "failed_iter"
    /\ buffer # <<>>
    /\ Count(out, "delta") > 0

\* C4 (as claimed): in free-text mode the delta contents of a clean stream,
\* concatenated, are the upstream text fragments, concatenated.
C4_TextPreserved ==
    (CleanlyFinished /\ ~json_response_required) =>
        Concat(DeltaContents(out)) = Concat(UpstreamFragments(consumed))

\* C5: in JSON mode with non-empty text fragments, the delta contents of a
\* clean stream, concatenated, are the upstream text fragments, concatenated;
\* while the stream runs, what was emitted plus what is held back is what
\* has arrived.
NonEmptyFragments == \A i \in 1..Len(consumed) :
    consumed[i].type = "content_block_delta" => consumed[i].text # <<>>

C5_JsonPreserved ==
    (json_response_required /\ NonEmptyFragments) =>
        /\ CleanlyFinished =>
              Concat(DeltaContents(out)) = Concat(UpstreamFragments(consumed))
        /\ pc = "next" =>
              Concat(DeltaContents(out)) \o buffer
                  = Concat(UpstreamFragments(consumed))
        /\ pc = "for_chunks" =>
              Concat(DeltaContents(out)) \o Concat(chunks)
                  = Concat(UpstreamFragments(consumed))

C5_Witness ==
    /\ json_response_required
    /\ NonEmptyFragments
    /\ CleanlyFinished
    /\ Len(UpstreamFragments(consumed)) = MaxEvents
    /\ Count(out, "delta") >= 2

\* C6 (as claimed): every stream that has ended holds exactly one start event,
\* and it is the first event.
C6_OneStartFirst ==
    pc = "finished" =>
        /\ out # <<>>
        /\ out[1].type = "start"
        /\ Count(out, "start") = 1

\* A request that passes verify_api_key and has no usable message list.
NoMessagesRequest ==
    /\ ~verify_api_key(request.authorization).raised
    /\ request.body.kind = "object"
    /\ ~request.body.data.has_messages \/ request.body.data.messages = <<>>

\* C7: an authenticated request with a missing or empty message list is
\* answered with status 400, and neither messages.create nor messages.stream
\* is called for it, whatever stream and response_format are.
C7_NoMessagesRejected ==
    NoMessagesRequest =>
        /\ create_calls = 0
        /\ stream_calls = 0
        /\ pc = "idle"
        /\ gpc \in {"received", "responded"}
        /\ gpc = "responded" => response.status = 400

C7_Witness ==
    /\ NoMessagesRequest
    /\ request.body.data.has_messages
    /\ request.body.data.stream
    /\ request.body.data.response_format = "json_object"
    /\ gpc = "responded"
    /\ response.status = 400

\* The uniform error envelope.
IsErrorEnvelope(r) ==
    /\ r.via = "JSONResponse"
    /\ DOMAIN r.body = {"error"}
    /\ DOMAIN r.body.error = {"message", "type"}
    /\ r.body.error.type = "invalid_request_error"

\* C8 (as claimed): every error outcome of the handler is a response with the
\* uniform error envelope.
C8_UniformEnvelope ==
    (gpc = "responded" /\ response.status >= 400) => IsErrorEnvelope(response)

\* C9: when messages.create raises, the handler returns a status-500 error
\* envelope whose message holds the exception's type name and text.
C9_CreateErrorEnvelope ==
    (gpc = "responded" /\ create_result.raised) =>
        /\ IsErrorEnvelope(response)
        /\ response.status = 500
        /\ \E i \in 1..Len(response.body.error.message) :
              response.body.error.message[i] = create_result.type
        /\ \E i \in 1..Len(response.body.error.message) :
              response.body.error.message[i] = create_result.text

C9_Witness ==
    /\ gpc = "responded"
    /\ create_result.raised
    /\ ~IsAnthropicError(create_result)
    /\ response.status = 500

\* messages.create returned a text that is not JSON, in json_object mode.
UnparseableJson ==
    /\ gpc = "responded"
    /\ create_calls = 1
    /\ ~create_result.raised
    /\ json_response_required
    /\ ~json_loads(IF create_result.response.content # <<>>
                   THEN create_result.response.content[1].text ELSE "").ok

\* C10 (as claimed): unparseable upstream text in json_object mode gives status
\* 500 with exactly the fixed message.
C10_FixedFormatError ==
    UnparseableJson =>
        /\ response.status = 500
        /\ IsErrorEnvelope(response)
        /\ response.body.error.message
              = <<"Failed to generate a valid JSON response">>

\* The upstream call parameters have been built for the request.
ParamsBuilt == "messages" \in DOMAIN api_params

InboundMessages == request.body.data.messages

SystemIndexes == { i \in 1..Len(InboundMessages) : InboundMessages[i].role = "system" }

\* C11 (as claimed): when the inbound messages hold system messages, the
\* upstream system instruction is the content of the first of them.
C11_FirstSystemWins ==
    (ParamsBuilt /\ SystemIndexes # {}) =>
        /\ api_params.has_system
        /\ api_params.system =
              InboundMessages[CHOOSE i \in SystemIndexes :
                                 \A j \in SystemIndexes : i <= j].content

IsNotSystem(msg) == msg.role # "system"

\* C12: the upstream messages are the inbound messages that are not
\* system messages, in their inbound order.
C12_NonSystemForwarded ==
    ParamsBuilt =>
        /\ api_params.messages = SelectSeq(InboundMessages, IsNotSystem)
        /\ \A i \in 1..Len(api_params.messages) :
              api_params.messages[i].role # "system"

C12_Witness ==
    /\ ParamsBuilt
    /\ SystemIndexes # {}
    /\ Len(api_params.messages) = MaxMsgs - 1
    /\ \E i, j \in 1..Len(InboundMessages) :
          /\ i < j
          /\ InboundMessages[i].role = "user"
          /\ InboundMessages[j].role = "system"

\* The instruction spec 4.1 rule 4 has appended for response_format json_object.
json_instruction ==
    "You must respond with a valid JSON object only, without any additional text. "
    \o "Do not include markdown formatting or code blocks. "
    \o "The response should be parseable by a JSON parser."

\* s is json_instruction alone, or a system message, a blank line, json_instruction.
EndsWithJsonInstruction(s) ==
    \/ s = json_instruction
    \/ \E i \in SystemIndexes :
          s = InboundMessages[i].content \o "\n\n" \o json_instruction

\* C13 (as claimed): whenever the request has response_format.type = "json_object",
\* the upstream call parameters carry a system field that ends with the fixed
\* JSON-only instruction, on the streaming and on the non-streaming path.
C13_JsonInstructionAppended ==
    (ParamsBuilt /\ request.body.data.response_format = "json_object") =>
        /\ api_params.has_system
        /\ EndsWithJsonInstruction(api_params.system)

\* C14 (as claimed): the upstream call parameters contain a temperature exactly
\* when the request contains one, and then the request's value; no configured
\* default is sent when the request omits it.
C14_TemperaturePassThrough ==
    ParamsBuilt =>
        /\ api_params.has_temperature = request.body.data.has_temperature
        /\ api_params.has_temperature => api_params.temperature = RequestTemperature

\* The upstream client has been reached: messages.create or messages.stream
\* was called, or the call parameters for it have been built.
ReachedUpstream == create_calls > 0 \/ stream_calls > 0 \/ ParamsBuilt

\* C15 (as claimed): a header other than exactly "Bearer " followed by the proxy
\* key is answered 401, and such a request never reaches the upstream client.
C15_ExactBearerOnly ==
    request.authorization # GoodAuth =>
        /\ ~ReachedUpstream
        /\ gpc = "responded" =>
              (response.via = "HTTPException" /\ response.status = 401)

\* A non-streaming request was answered 200 from a Message that create returned.
AnsweredFromMessage ==
    /\ gpc = "responded"
    /\ create_calls > 0
    /\ ~create_result.raised
    /\ response.via = "JSONResponse" /\ response.status = 200

\* C17: the outbound usage has prompt_tokens = input_tokens, completion_tokens =
\* output_tokens and total_tokens = prompt_tokens + completion_tokens.
C17_UsageArithmetic ==
    AnsweredFromMessage =>
        LET usage == response.body.usage
            upstream_usage == create_result.response.usage
        IN  /\ usage.prompt_tokens = upstream_usage.input_tokens
            /\ usage.completion_tokens = upstream_usage.output_tokens
            /\ usage.total_tokens = usage.prompt_tokens + usage.completion_tokens

C17_Witness ==
    /\ AnsweredFromMessage
    /\ create_result.response.usage.input_tokens = MaxTok
    /\ create_result.response.usage.output_tokens = MaxTok
    /\ response.body.usage.total_tokens = 2 * MaxTok

\* The brace depth after the first n characters of s, scanned from depth 0.
BraceDepth(s, n) ==
    Cardinality({ i \in 1..n : s[i] = "{" }) - Cardinality({ i \in 1..n : s[i] = "}" })

\* s is non-empty, its depth never goes below 0, and it ends with the '}' that
\* brings the depth back to 0: complete balanced objects with nothing after.
Balanced(s) ==
    /\ s # <<>>
    /\ s[Len(s)] = "}"
    /\ BraceDepth(s, Len(s)) = 0
    /\ \A n \in 1..Len(s) : BraceDepth(s, n) >= 0

\* C18 (as claimed): in JSON mode, when the buffer after consuming a content
\* delta is complete balanced objects with nothing after the last one, all of
\* them are emitted while that event is processed: when the processing of the
\* event ends, nothing is held back for the next event or the final flush.
C18_CompleteObjectsEmittedAtOnce ==
    [][ (json_response_required /\ pc = "for_chunks" /\ pc' = "next"
            /\ Balanced(buffer))
        => buffer' = <<>> ]_vars

\* split_chunks has returned for the buffer.
Segmented == pc = "segmented"

\* C16 (as claimed): for every non-empty buffer and both modes, the chunks
\* before the last, concatenated in order, followed by the last chunk, are
\* the buffer exactly.
C16_ChunksReconstituteBuffer ==
    (Segmented /\ buffer # <<>>) =>
        /\ chunks # <<>>
        /\ Concat(SubSeq(chunks, 1, Len(chunks) - 1)) \o chunks[Len(chunks)] = buffer

\* C19 (as claimed): in JSON mode every chunk before the last is complete and
\* balanced: scanned alone from depth 0 its depth never becomes negative, is 0
\* at its end, and its last character is '}'.
C19_ReadyChunksBalanced ==
    (Segmented /\ json_response_required) =>
        \A i \in 1..(Len(chunks) - 1) : Balanced(chunks[i])

\* The buffer holds no '}' without a '{' before it.
NoUnmatchedClose(s) == \A n \in 1..Len(s) : BraceDepth(s, n) >= 0

\* C19 (amended): in JSON mode every chunk before the last ends with '}', has
\* depth 0 at its end and at no earlier '}' when scanned alone from depth 0;
\* its depth never becomes negative when the buffer has no unmatched '}'.
C19_ReadyChunksClosedAtZero ==
    (Segmented /\ json_response_required) =>
        \A i \in 1..(Len(chunks) - 1) :
            LET chunk == chunks[i] IN
            /\ chunk # <<>>
            /\ chunk[Len(chunk)] = "}"
            /\ BraceDepth(chunk, Len(chunk)) = 0
            /\ \A n \in 1..(Len(chunk) - 1) :
                  chunk[n] = "}" => BraceDepth(chunk, n) # 0
            /\ NoUnmatchedClose(buffer) => Balanced(chunk)

C19_Witness ==
    /\ Segmented
    /\ json_response_required
    /\ Len(chunks) >= 2
    /\ \E n \in 1..Len(chunks[1]) : BraceDepth(chunks[1], n) < 0
    /\ \E n \in 1..Len(chunks[1]) : BraceDepth(chunks[1], n) > 0

\* C20 (as claimed): in free-text mode a chunk built from two or more sentence
\* fragments (it holds the ". " that joins them) has at most max_chunk_size
\* characters; only a chunk of a single fragment may be longer.
C20_JoinedChunksWithinThreshold ==
    (Segmented /\ ~json_response_required) =>
        \A i \in 1..Len(chunks) :
            Cuts(chunks[i]) # {} => Len(chunks[i]) <= max_chunk_size

\* C21 (as claimed): in free-text mode a non-empty buffer shorter than
\* max_chunk_size that holds no ". ", blanks at its ends included, gives no
\* ready chunk and itself as the remainder.
C21_ShortBufferIsRemainder ==
    (Segmented /\ ~json_response_required /\ buffer # <<>>
        /\ Len(buffer) < max_chunk_size /\ Cuts(buffer) = {})
    => chunks = <<buffer>>

\* C22 (as claimed): no outbound stream holds both a stop event and an error
\* frame, wherever the upstream fails: while it is opened, while it is
\* iterated, or while the stream context is closed after the last event.
C22_StopExcludesError ==
    ~(Count(out, "stop") > 0 /\ Count(out, "error") > 0)

\* The consumer went away and the stream context has been exited for it.
Disconnected == upstream \in {"closed_on_cancel", "failed_on_cancel"}

\* C26 (as claimed): once the caller has disconnected mid-stream, no further
\* outbound event is emitted (no flush delta, stop, error frame or sentinel),
\* the upstream context is exited and no further upstream event is consumed.
C26_NothingAfterDisconnect ==
    [][ Disconnected =>
          (out' = out /\ consumed' = consumed /\ upstream' = upstream) ]_vars

\* Where b is next free after the characters a[lo..hi] have been found in b,
\* in order, from position j on, each at its first occurrence; Len(b) + 2
\* when one of them is not found. The range is halved as in JsonLoop.
RECURSIVE MatchEnd(_, _, _, _, _)
MatchEnd(a, b, lo, hi, j) ==
    IF lo > hi THEN j
    ELSE IF lo = hi
         THEN LET ks == { k \in j..Len(b) : b[k] = a[lo] }
              IN  IF ks = {} THEN Len(b) + 2
                  ELSE (CHOOSE k \in ks : \A m \in ks : k <= m) + 1
    ELSE LET mid == (lo + hi) \div 2
             first == MatchEnd(a, b, lo, mid, j)
         IN  IF first > Len(b) + 1 THEN first
             ELSE MatchEnd(a, b, mid + 1, hi, first)

\* a can be obtained from b by deleting characters.
IsSubsequence(a, b) == MatchEnd(a, b, 1, Len(a), 1) <= Len(b) + 1

\* C23: in both modes, on the success and the failure paths, the characters
\* of the delta events in emission order are a subsequence of the upstream
\* text fragments in arrival order: nothing is reordered or emitted twice.
C23_DeltasAreSubsequence ==
    IsSubsequence(Concat(DeltaContents(out)), Concat(UpstreamFragments(consumed)))

C23_Witness ==
    /\ ~json_response_required
    /\ pc = "finished"
    /\ UpstreamFailed
    /\ Count(out, "delta") >= 2
    /\ Concat(DeltaContents(out)) # Concat(UpstreamFragments(consumed))

\* The ready chunks emitted and the buffer held once the text fragments have
\* been processed one after the other (lines 216-222); failed when a
\* fragment leaves no chunk at all.
RECURSIVE Replay(_, _, _)
Replay(st, fragments, json_mode) ==
    IF fragments = <<>> \/ st.failed THEN st
    ELSE LET cs == split_chunks(st.buffer \o Head(fragments), json_mode) IN
         IF cs = <<>> THEN [st EXCEPT !.failed = TRUE]
         ELSE Replay([emitted |-> st.emitted \o SubSeq(cs, 1, Len(cs) - 1),
                      buffer |-> cs[Len(cs)], failed |-> FALSE],
                     Tail(fragments), json_mode)

\* What the content fragments consumed so far give, all other events left out.
Replayed ==
    Replay([emitted |-> <<>>, buffer |-> <<>>, failed |-> FALSE],
           UpstreamFragments(consumed), json_response_required)

LastConsumed == consumed[Len(consumed)]

\* C24: consuming an event that is no content_block_delta emits nothing and
\* leaves the buffer as it is, and the translator goes on waiting for the next
\* event; the outbound events of a stream are those of its content fragments
\* alone.
C24_OtherEventsIgnored ==
    /\ [][ (consumed' # consumed
              /\ consumed'[Len(consumed')].type # "content_block_delta")
           => UNCHANGED <<out, buffer, chunks, pc>> ]_vars
    /\ [](CleanlyFinished =>
            /\ ~Replayed.failed
            /\ DeltaContents(out) =
                  Replayed.emitted \o (IF Replayed.buffer # <<>>
                                       THEN <<Replayed.buffer>> ELSE <<>>)
            /\ Len(out) = Count(out, "delta") + 3)

C24_Witness ==
    /\ CleanlyFinished
    /\ Len(consumed) = MaxEvents
    /\ consumed[1].type = "content_block_delta" /\ consumed[1].text # <<>>
    /\ consumed[2].type # "content_block_delta"
    /\ consumed[3].type = "content_block_delta" /\ consumed[3].text # <<>>
    /\ DeltaContents(out) = <<consumed[1].text \o consumed[3].text>>

\* C25: the outbound events are produced incrementally: the start event is
\* emitted before any upstream event is consumed, and whenever the translator
\* is about to consume the next upstream event, every delta that results from
\* the events consumed so far has been emitted.
C25_EmittedIncrementally ==
    /\ consumed # <<>> => (out # <<>> /\ out[1].type = "start")
    /\ pc = "next" =>
          /\ upstream = "live"
          /\ out # <<>> /\ out[1].type = "start"
          /\ ~Replayed.failed
          /\ DeltaContents(out) = Replayed.emitted
          /\ Len(out) = 1 + Len(Replayed.emitted)

C25_Witness ==
    /\ pc = "next"
    /\ Len(consumed) = MaxEvents
    /\ Count(out, "delta") >= 1
    /\ buffer # <<>>

\* C27: in JSON mode the delta contents of a clean stream, the final flush
\* included, are split_json_chunks of the whole upstream text, however the
\* text was cut into non-empty fragments.
C27_FragmentationIndependent ==
    (json_response_required /\ NonEmptyFragments /\ CleanlyFinished) =>
        DeltaContents(out) = split_json_chunks(Concat(UpstreamFragments(consumed)))

C27_Witness ==
    /\ json_response_required
    /\ NonEmptyFragments
    /\ CleanlyFinished
    /\ Len(UpstreamFragments(consumed)) = MaxEvents
    /\ \A i \in 1..Len(consumed) : Len(consumed[i].text) = 1
    /\ Len(DeltaContents(out)) = 2
    /\ Len(DeltaContents(out)[1]) = 2

====
